---- MODULE Spec2Model ----
(***************************************************************************)
(* Restricted Hartree-Fock for a diatomic molecule in a minimal basis of   *)
(* contracted 1s Gaussians: the integral engine, the assembly of S, Hcore  *)
(* and the two-electron tensor, and the single G / F / eigen-solve /       *)
(* energy pass of the notebook.                                            *)
(*                                                                         *)
(* Numbers.  The notebook computes in float64 with exp, erf, sqrt, pi and  *)
(* fractional powers.  The model computes the same expressions exactly:    *)
(* a value is a fraction n/d of polynomials with rational coefficients in  *)
(* the atoms p^(1/4) (p prime), sqrt(pi), exp(q) and erf(sqrt(q)) (q       *)
(* rational).  Fourth roots are reduced (p^(1/4))^4 = p, exp(0) = 1 and    *)
(* erf(0) = 0; no other relation between atoms is used.  Two values that   *)
(* the model finds equal are equal as real numbers; rounding, and so the   *)
(* order of float additions, is not modelled.  A zero denominator is the   *)
(* float nan / inf that numpy yields for a division by zero.               *)
(***************************************************************************)
EXTENDS Integers, Sequences, FiniteSets, TLC

(* ------------------------------ rationals ------------------------------ *)
Abs(n) == IF n < 0 THEN -n ELSE n

RECURSIVE GCD(_, _)
GCD(a, b) == IF b = 0 THEN a ELSE GCD(b, a % b)

\* n/d in lowest terms with a positive denominator (d # 0)
Rat(n, d) ==
  LET s == IF d < 0 THEN -1 ELSE 1
      g == GCD(Abs(n), Abs(d))
  IN  <<(s * n) \div g, (s * d) \div g>>

RInt(n) == <<n, 1>>
RZero == <<0, 1>>
ROne == <<1, 1>>
RAdd(a, b) ==
  LET g == GCD(a[2], b[2])
  IN  Rat(a[1] * (b[2] \div g) + b[1] * (a[2] \div g), (a[2] \div g) * b[2])
RNeg(a) == <<-a[1], a[2]>>
RSub(a, b) == RAdd(a, RNeg(b))
RMul(a, b) ==
  LET g1 == GCD(Abs(a[1]), b[2])
      g2 == GCD(Abs(b[1]), a[2])
  IN  <<(a[1] \div g1) * (b[1] \div g2), (a[2] \div g2) * (b[2] \div g1)>>
RInv(a) == Rat(a[2], a[1])
RDiv(a, b) == RMul(a, RInv(b))

RECURSIVE IPow(_, _)
\* the rational p^k, k any integer, p a positive integer
IPow(p, k) ==
  IF k = 0 THEN ROne
  ELSE IF k > 0 THEN RMul(RInt(p), IPow(p, k - 1))
  ELSE RMul(<<1, p>>, IPow(p, k + 1))

(* ------------------------------ monomials ------------------------------ *)
\* An atom is <<kind, a, b>>: <<"r4", p, 1>> is p^(1/4), <<"spi", 0, 1>> is
\* sqrt(pi), <<"exp", a, b>> is exp(a/b), <<"erf", a, b>> is erf(sqrt(a/b)).
\* A monomial maps atoms to nonzero integer exponents.
MOne == [x \in {} |-> 0]

\* the function f as an explicit table (TLC evaluates f once, here)
Tab(f) == f @@ MOne

RECURSIVE RootCarry(_, _)
\* the rational part of the r4 atoms of a raw monomial: product of p^(e div 4)
RootCarry(raw, D) ==
  IF D = {} THEN ROne
  ELSE LET x == CHOOSE y \in D : TRUE
       IN  RMul(IF x[1] = "r4" THEN IPow(x[2], raw[x] \div 4) ELSE ROne,
                RootCarry(raw, D \ {x}))

\* the exponent an atom keeps after reduction
Kept(x, e) == IF x[1] = "r4" THEN e % 4 ELSE e

\* a raw monomial reduced: [c: rational factor, m: monomial]
MNorm(raw) ==
  [c |-> RootCarry(raw, DOMAIN raw),
   m |-> Tab([x \in {y \in DOMAIN raw : Kept(y, raw[y]) # 0} |-> Kept(x, raw[x])])]

MExp(a, x) == IF x \in DOMAIN a THEN a[x] ELSE 0
\* the raw product of two monomials
MRaw(a, b) == Tab([x \in DOMAIN a \cup DOMAIN b |-> MExp(a, x) + MExp(b, x)])
MMul(a, b) == MNorm(MRaw(a, b))
MInv(a) == MNorm(Tab([x \in DOMAIN a |-> -a[x]]))

(* ----------------------------- polynomials ----------------------------- *)
\* A polynomial maps monomials to nonzero rational coefficients.
PZero == [m \in {} |-> RZero]
PConst(r) == IF r = RZero THEN PZero ELSE Tab([m \in {MOne} |-> r])
POne == PConst(ROne)
PCoef(p, m) == IF m \in DOMAIN p THEN p[m] ELSE RZero
IsTerm(p) == Cardinality(DOMAIN p) = 1

\* The operations on polynomials and on values refer to one another through
\* Arith(op, x, y), which applies the operation named op: TLC then keeps one
\* copy of each operation rather than one per place of use.
RECURSIVE Arith(_, _, _)

PSum(p, q, D) ==
  Tab([m \in {y \in D : RAdd(PCoef(p, y), PCoef(q, y)) # RZero} |->
         RAdd(PCoef(p, m), PCoef(q, m))])

PAdd(p, q) ==
  IF p = PZero THEN q
  ELSE IF q = PZero THEN p
  ELSE PSum(p, q, DOMAIN p \cup DOMAIN q)

PScale(p, r) == IF r = RZero THEN PZero ELSE Tab([m \in DOMAIN p |-> RMul(p[m], r)])
PNeg(p) == PScale(p, RInt(-1))

\* p times the single term c*b, from the table prod of the products a*b
PShiftBy(p, c, prod) ==
  Tab([m \in {prod[a].m : a \in DOMAIN p} |->
         LET a == CHOOSE a0 \in DOMAIN p : prod[a0].m = m
         IN  RMul(RMul(p[a], c), prod[a].c)])

PShift(p, b, c) == PShiftBy(p, c, Tab([a \in DOMAIN p |-> MMul(a, b)]))

RECURSIVE PMulBy(_, _, _)
PMulBy(p, q, D) ==
  IF D = {} THEN PZero
  ELSE LET b == CHOOSE y \in D : TRUE
       IN  Arith("PAdd", Arith("PShift", p, <<b, q[b]>>), PMulBy(p, q, D \ {b}))

PMul(p, q) ==
  IF p = PZero \/ q = PZero THEN PZero
  ELSE IF q = POne THEN p
  ELSE IF p = POne THEN q
  ELSE IF Cardinality(DOMAIN p) < Cardinality(DOMAIN q)
       THEN Arith("PMul", q, p)
       ELSE PMulBy(p, q, DOMAIN q)

(* ------------------------- values (float64) ---------------------------- *)
\* A value is n/d; d = PZero is nan or inf.
Num(p) == [n |-> p, d |-> POne]
NRat(r) == Num(PConst(r))
NInt(k) == NRat(RInt(k))
NZero == NInt(0)
NOne == NInt(1)
IsFinite(a) == a.d # PZero
NNeg(a) == [n |-> PNeg(a.n), d |-> a.d]

\* a divided by the single term coef*m, whose inverse is inv.c*inv.m
NDivByTerm(a, coef, inv) ==
  [n |-> Arith("PShift", a.n, <<inv.m, RMul(inv.c, RInv(coef))>>), d |-> a.d]

Arith(op, x, y) ==
  CASE op = "PAdd" -> PAdd(x, y)
    [] op = "PShift" -> PShift(x, y[1], y[2])
    [] op = "PMul" -> PMul(x, y)
    [] op = "NAdd" ->
         IF x.d = y.d THEN [n |-> Arith("PAdd", x.n, y.n), d |-> x.d]
         ELSE [n |-> Arith("PAdd", Arith("PMul", x.n, y.d), Arith("PMul", y.n, x.d)),
               d |-> Arith("PMul", x.d, y.d)]
    [] op = "NSub" -> Arith("NAdd", x, NNeg(y))
    [] op = "NMul" -> [n |-> Arith("PMul", x.n, y.n), d |-> Arith("PMul", x.d, y.d)]
    [] op = "NDiv" ->
         \* a single-term divisor is inverted into the numerator
         IF y.d = POne /\ y.n # PZero /\ IsTerm(y.n)
         THEN LET m == CHOOSE t \in DOMAIN y.n : TRUE
              IN  NDivByTerm(x, y.n[m], MInv(m))
         ELSE [n |-> Arith("PMul", x.n, y.d), d |-> Arith("PMul", x.d, y.n)]
    [] op = "NEq" ->
         IsFinite(x) /\ IsFinite(y) /\ Arith("PMul", x.n, y.d) = Arith("PMul", y.n, x.d)

NAdd(a, b) == Arith("NAdd", a, b)
NSub(a, b) == Arith("NSub", a, b)
NMul(a, b) == Arith("NMul", a, b)
\* a / b
NDiv(a, b) == Arith("NDiv", a, b)
\* equality of two finite values
NEq(a, b) == Arith("NEq", a, b)

(* -------------------------- library functions -------------------------- *)
RECURSIVE SmallestFactor(_, _)
SmallestFactor(n, p) ==
  IF p * p > n THEN n ELSE IF n % p = 0 THEN p ELSE SmallestFactor(n, p + 1)

\* the raw monomial r times p^(k/4)
WithRoot(r, p, k) ==
  Tab([y \in DOMAIN r \cup {<<"r4", p, 1>>} |->
         MExp(r, y) + (IF y = <<"r4", p, 1>> THEN k ELSE 0)])

RECURSIVE RootsOf(_, _)
\* the raw monomial n^(k/4) for an integer n >= 1
RootsOf(n, k) ==
  IF n = 1 THEN MOne
  ELSE WithRoot(RootsOf(n \div SmallestFactor(n, 2), k), SmallestFactor(n, 2), k)

\* the value c*m of a reduced monomial r = [c, m]
NTerm(r) == Num(Tab([m \in {r.m} |-> r.c]))

\* x ** (k/4) for a rational x >= 0: x**0.75 is PowQ(x, 3), np.sqrt(x) is
\* PowQ(x, 2), x**(-1.5) is PowQ(x, -6).  0 to a negative power divides by 0.
PowQ(x, k) ==
  IF x[1] = 0
  THEN (IF k > 0 THEN NZero ELSE IF k = 0 THEN NOne ELSE [n |-> POne, d |-> PZero])
  ELSE NTerm(MMul(RootsOf(x[1], k), RootsOf(x[2], -k)))

\* np.pi ** (h/2)
PiPow(h) ==
  IF h = 0 THEN NOne ELSE Num(Tab([m \in {Tab([x \in {<<"spi", 0, 1>>} |-> h])} |-> ROne]))

\* np.exp(q) for a rational q
Exp(q) ==
  IF q[1] = 0 THEN NOne
  ELSE Num(Tab([m \in {Tab([x \in {<<"exp", q[1], q[2]>>} |-> 1])} |-> ROne]))

\* erf(sqrt(q)) for a rational q >= 0
ErfSqrt(q) ==
  IF q[1] = 0 THEN NZero
  ELSE Num(Tab([m \in {Tab([x \in {<<"erf", q[1], q[2]>>} |-> 1])} |-> ROne]))

(* ------------------------------ vectors -------------------------------- *)
\* 3-vectors of rationals (the rows R[i,:] and their combinations)
VSub(a, b) == [c \in 1..3 |-> RSub(a[c], b[c])]
VAdd(a, b) == [c \in 1..3 |-> RAdd(a[c], b[c])]
VScale(k, a) == [c \in 1..3 |-> RMul(k, a[c])]
VDiv(a, k) == [c \in 1..3 |-> RDiv(a[c], k)]
\* np.dot(a, b)
Dot(a, b) == RAdd(RAdd(RMul(a[1], b[1]), RMul(a[2], b[2])), RMul(a[3], b[3]))
\* diff = RA - RB; np.dot(diff, diff)
Dist2(RA, RB) == Dot(VSub(RA, RB), VSub(RA, RB))
\* RP = (alpha*RA + beta*RB)/(alpha + beta)
Centre(alpha, RA, beta, RB) ==
  VDiv(VAdd(VScale(alpha, RA), VScale(beta, RB)), RAdd(alpha, beta))

RECURSIVE NSum(_)
\* the running sum x = 0.0; x += s[1]; x += s[2]; ...
NSum(s) == IF Len(s) = 0 THEN NZero ELSE NAdd(NSum(SubSeq(s, 1, Len(s) - 1)), s[Len(s)])

RECURSIVE NProd(_)
\* the product s[1] * s[2] * ...
NProd(s) == IF Len(s) = 0 THEN NOne ELSE NMul(NProd(SubSeq(s, 1, Len(s) - 1)), s[Len(s)])

(* ---------------------- primitive Gaussian integrals ------------------- *)
\* alpha*beta/(alpha+beta)
Reduced(alpha, beta) == RDiv(RMul(alpha, beta), RAdd(alpha, beta))

gaussian_overlap(alpha, RA, beta, RB) ==
  NMul(PowQ(RAdd(alpha, beta), -6),
       Exp(RMul(RNeg(Reduced(alpha, beta)), Dist2(RA, RB))))

gaussian_kinetic(alpha, RA, beta, RB) ==
  NProd(<<NRat(RMul(Reduced(alpha, beta),
                    RSub(RInt(3), RMul(RMul(RInt(2), Reduced(alpha, beta)), Dist2(RA, RB))))),
          PiPow(3),
          PowQ(RAdd(alpha, beta), -6),
          Exp(RMul(RNeg(Reduced(alpha, beta)), Dist2(RA, RB)))>>)

\* a faulty PotRPRC2: RP taken as RA, the exponent weighting of RA, RB lost
PotRPRC2_Unweighted(alpha, RA, beta, RB, RC) == Dist2(RA, RC)

\* the squared distances gaussian_potential branches on
PotRPRC2(alpha, RA, beta, RB, RC) == Dist2(Centre(alpha, RA, beta, RB), RC)

PotRARB2(RA, RB) == Dist2(RA, RB)

\* the test of the if statement of gaussian_potential
PotIsLimit(alpha, RA, beta, RB, RC) ==
  PotRPRC2(alpha, RA, beta, RB, RC) = RZero /\ PotRARB2(RA, RB) = RZero

\* the else branch of gaussian_potential, t*t = AplusB*RPRC2:
\* 2.0*np.pi*0.5/AplusB*np.sqrt(np.pi)/t*erf(t) * np.exp(-alpha*beta/AplusB*RARB2)
PotErfBranch(alpha, beta, tt, RARB2) ==
  NDiv(NProd(<<NRat(RInv(RAdd(alpha, beta))), PiPow(3), ErfSqrt(tt),
               Exp(RMul(RNeg(Reduced(alpha, beta)), RARB2))>>),
       PowQ(tt, 2))

\* a faulty gaussian_potential: the zero-separation branch is missing
gaussian_potential_NoLimit(alpha, RA, beta, RB, RC) ==
  PotErfBranch(alpha, beta, RMul(RAdd(alpha, beta), PotRPRC2(alpha, RA, beta, RB, RC)),
               PotRARB2(RA, RB))

gaussian_potential(alpha, RA, beta, RB, RC) ==
  IF PotIsLimit(alpha, RA, beta, RB, RC)
  THEN NMul(NRat(RDiv(RInt(2), RAdd(alpha, beta))), PiPow(2))
  ELSE PotErfBranch(alpha, beta,
                    RMul(RAdd(alpha, beta), PotRPRC2(alpha, RA, beta, RB, RC)),
                    PotRARB2(RA, RB))

\* a faulty TwoERPRQ2: RQ taken as RC, the exponent weighting of RC, RD lost
TwoERPRQ2_Unweighted(alpha, RA, beta, RB, gamma, RC, delta, RD) ==
  Dist2(Centre(alpha, RA, beta, RB), RC)

\* |RP - RQ|^2 of gaussian_2e
TwoERPRQ2(alpha, RA, beta, RB, gamma, RC, delta, RD) ==
  Dist2(Centre(alpha, RA, beta, RB), Centre(gamma, RC, delta, RD))

\* the factor 0.5*np.sqrt(np.pi)/t*erf(t), applied if (RPRQ2 != 0);
\* t*t = AplusB*GplusD/(AplusB+GplusD)*RPRQ2
TwoEErfFactor(AplusB, GplusD, RPRQ2) ==
  IF RPRQ2 # RZero
  THEN NDiv(NProd(<<NRat(<<1, 2>>), PiPow(1),
                    ErfSqrt(RMul(RDiv(RMul(AplusB, GplusD), RAdd(AplusB, GplusD)), RPRQ2))>>),
            PowQ(RMul(RDiv(RMul(AplusB, GplusD), RAdd(AplusB, GplusD)), RPRQ2), 2))
  ELSE NOne

gaussian_2e(alpha, RA, beta, RB, gamma, RC, delta, RD) ==
  NDiv(NProd(<<NInt(2), PiPow(5),
               TwoEErfFactor(RAdd(alpha, beta), RAdd(gamma, delta),
                             TwoERPRQ2(alpha, RA, beta, RB, gamma, RC, delta, RD)),
               Exp(RSub(RMul(RNeg(Reduced(alpha, beta)), Dist2(RA, RB)),
                        RMul(Reduced(gamma, delta), Dist2(RC, RD))))>>),
       \* denom = AplusB*GplusD*np.sqrt(AplusB+GplusD)
       NMul(NRat(RMul(RAdd(alpha, beta), RAdd(gamma, delta))),
            PowQ(RAdd(RAdd(alpha, beta), RAdd(gamma, delta)), 2)))

(* ---------------------- contracted basis integrals --------------------- *)
basis_overlap(alpha, dA, RA, beta, dB, RB) ==
  NMul(NSum([i \in 1..Len(alpha) |-> NSum([j \in 1..Len(beta) |->
         NProd(<<PowQ(alpha[i], 3), PowQ(beta[j], 3), NRat(dA[i]), NRat(dB[j]),
                 gaussian_overlap(alpha[i], RA, beta[j], RB)>>)])]),
       PowQ(RInt(2), 6))

basis_kinetic(alpha, dA, RA, beta, dB, RB) ==
  NProd(<<NSum([i \in 1..Len(alpha) |-> NSum([j \in 1..Len(beta) |->
            NProd(<<PowQ(RMul(alpha[i], beta[j]), 3), NRat(dA[i]), NRat(dB[j]),
                    gaussian_kinetic(alpha[i], RA, beta[j], RB)>>)])]),
          PowQ(RInt(2), 6), PiPow(-3)>>)

basis_potential(alpha, dA, RA, beta, dB, RB, Zs, Rs) ==
  NSum([atom \in 1..Len(Zs) |->
    NSum([i \in 1..Len(alpha) |-> NSum([j \in 1..Len(beta) |->
      NProd(<<NRat(RNeg(Zs[atom])), PowQ(RInt(2), 6), PiPow(-3),
              PowQ(RMul(alpha[i], beta[j]), 3), NRat(dA[i]), NRat(dB[j]),
              gaussian_potential(alpha[i], RA, beta[j], RB, Rs[atom])>>)])])])

basis_2e(alpha, dA, RA, beta, dB, RB, gamma, dC, RC, delta, dD, RD) ==
  NProd(<<NSum([i \in 1..Len(alpha) |-> NSum([j \in 1..Len(beta) |->
            NSum([k \in 1..Len(gamma) |-> NSum([l \in 1..Len(delta) |->
              NProd(<<PowQ(RMul(RMul(RMul(alpha[i], beta[j]), gamma[k]), delta[l]), 3),
                      NRat(dA[i]), NRat(dB[j]), NRat(dC[k]), NRat(dD[l]),
                      gaussian_2e(alpha[i], RA, beta[j], RB, gamma[k], RC, delta[l], RD)>>)])])])]),
          NInt(8), PiPow(-6)>>)

(* ------------------------------ matrices ------------------------------- *)
\* Python indices 0..M-1 are 1..M here.
Undef == <<>>
MatAdd(A, B) == [i \in DOMAIN A |-> [j \in DOMAIN A[i] |-> NAdd(A[i][j], B[i][j])]]

\* a coefficient s*sqrt(r), for the entries 1/sqrt(...) of C
Surd(s, r) == [s |-> s, r |-> r]
SurdMul(x, y) == CASE x.r = y.r -> NProd(<<x.s, y.s, x.r>>)

\* a faulty DensityEntry: the doubling P[i,j] *= 2.0 is missing
DensityEntry_NoDouble(Cm, i, j) ==
  NSum([a \in 1..(Len(Cm) \div 2) |-> SurdMul(Cm[i][a], Cm[j][a])])

\* P[i,j] for i <= j: the sum over a in range(M/2), then P[i,j] *= 2.0;
\* M/2 is the floor of the quotient in Python 2
DensityEntry(Cm, i, j) ==
  NMul(NSum([a \in 1..(Len(Cm) \div 2) |-> SurdMul(Cm[i][a], Cm[j][a])]), NInt(2))

\* j runs over range(i, M) and P[j,i] = P[i,j] fills the lower triangle
constructDensityMat(Cm) ==
  [i \in 1..Len(Cm) |-> [j \in 1..Len(Cm) |->
     DensityEntry(Cm, IF i <= j THEN i ELSE j, IF i <= j THEN j ELSE i)]]

\* a faulty GEntry: the exchange term without its factor 0.5
GEntry_NoHalf(Mb, Pm, tw, i, j) ==
  NSum([k \in 1..Mb |-> NSum([l \in 1..Mb |->
    NMul(Pm[k][l], NSub(tw[i][j][l][k], tw[i][k][l][j]))])])

\* the loop body of the G cell for one (i, j): G[i,j] = 0.0, then += over k, l
GEntry(Mb, Pm, tw, i, j) ==
  NSum([k \in 1..Mb |-> NSum([l \in 1..Mb |->
    NMul(Pm[k][l], NSub(tw[i][j][l][k], NMul(NRat(<<1, 2>>), tw[i][k][l][j])))])])

\* a faulty GMatrix: j runs over range(i, M) as in constructDensityMat, with
\* no G[j,i] = G[i,j], so the lower triangle stays 0.0
GMatrix_UpperOnly(Mb, Pm, tw) ==
  [i \in 1..Mb |-> [j \in 1..Mb |-> IF i <= j THEN GEntry(Mb, Pm, tw, i, j) ELSE NZero]]

GMatrix(Mb, Pm, tw) == [i \in 1..Mb |-> [j \in 1..Mb |-> GEntry(Mb, Pm, tw, i, j)]]

\* Etotal = 0.0; Etotal += P[i,j]*(Hcore[i,j]+F[i,j]); Etotal *= 0.5
ElectronicEnergy(Mb, Pm, Hc, Fm) ==
  NMul(NSum([i \in 1..Mb |-> NSum([j \in 1..Mb |->
         NMul(Pm[i][j], NAdd(Hc[i][j], Fm[i][j]))])]),
       NRat(<<1, 2>>))

\* the term added by Etotal += 1/R[1,0]
NuclearTerm(Rs) == NDiv(NOne, NRat(Rs[2][1]))

\* np.linalg.inv of a 2 x 2 matrix: the adjugate over the determinant;
\* Undef when it raises LinAlgError (singular matrix)
Det2(A) == NSub(NMul(A[1][1], A[2][2]), NMul(A[1][2], A[2][1]))
Adj2(A) == <<<<A[2][2], NNeg(A[1][2])>>, <<NNeg(A[2][1]), A[1][1]>>>>
AdjOverDet(adj, det) ==
  IF det.n = PZero THEN Undef
  ELSE [i \in 1..2 |-> [j \in 1..2 |-> NDiv(adj[i][j], det)]]
Inv2(A) == AdjOverDet(Adj2(A), Det2(A))

\* The orders in which np.linalg.eig may return the Mb eigenpairs: position a
\* holds the rank (1 = lowest eigenvalue) of the pair returned at index a.
\* numpy documents that the eigenvalues are not necessarily ordered.
EigOrders(Mb) == {o \in [1..Mb -> 1..Mb] : \A a, b \in 1..Mb : o[a] = o[b] => a = b}

(* ------------------------------- bounds -------------------------------- *)
MaxCoord == 1
MaxZ == 2

\* basis sets: one normalised primitive, one unnormalised primitive, and a
\* contraction of two different primitives
Contractions ==
  { [alpha |-> <<RInt(1)>>, d |-> <<RInt(1)>>],
    [alpha |-> <<RInt(2)>>, d |-> <<RInt(2)>>],
    [alpha |-> <<RInt(1), RInt(2)>>, d |-> <<RInt(1), RInt(2)>>] }

Coords == 0..MaxCoord
FirstNucleus == {<<RInt(x), RInt(0), RInt(0)>> : x \in 0..1}
SecondNucleus == {<<RInt(x), RInt(y), RInt(0)>> : x \in Coords, y \in Coords}
Charges == {<<RInt(a), RInt(b)>> : a \in 1..MaxZ, b \in 1..MaxZ}

(* -------------------------------- state -------------------------------- *)
VARIABLES
  pc,          \* the next notebook cell to run
  M,           \* number of basis functions
  N_electrons, \* number of electrons of the molecule
  Z, R,        \* nuclear charges and positions
  alpha, d,    \* exponents and contraction coefficients of every basis function
  S, Sinv, C, P, T, V, Hcore, twoE, G, F, e, v,
  Eelec,       \* the value printed as the electronic energy
  Etotal,
  raised,      \* the exceptions raised so far, as <<cell, exception>>
  steps,       \* the cells run so far
  ret          \* what the last direct call of a basis_* function gave

vars == <<pc, M, N_electrons, Z, R, alpha, d, S, Sinv, C, P, T, V, Hcore, twoE,
          G, F, e, v, Eelec, Etotal, raised, steps, ret>>

config == <<M, N_electrons, Z, R, alpha, d, ret>>

Init ==
  /\ pc = "S"
  /\ M = 2
  /\ N_electrons = 2
  /\ Z \in Charges
  /\ \E r0 \in FirstNucleus, r1 \in SecondNucleus : R = <<r0, r1>>
  /\ \E b \in Contractions : alpha = b.alpha /\ d = b.d
  /\ S = Undef /\ Sinv = Undef /\ C = Undef /\ P = Undef /\ T = Undef
  /\ V = Undef /\ Hcore = Undef /\ twoE = Undef /\ G = Undef /\ F = Undef
  /\ e = Undef /\ v = Undef /\ Eelec = Undef /\ Etotal = Undef
  /\ raised = <<>> /\ steps = <<>> /\ ret = Undef

\* compute S, the overlap matrix, and its inverse
SCell ==
  /\ pc = "S"
  /\ S' = [i \in 1..M |-> [j \in 1..M |-> basis_overlap(alpha, d, R[i], alpha, d, R[j])]]
  /\ Sinv' = Inv2(S')
  /\ raised' = IF Sinv' = Undef THEN Append(raised, <<"S", "LinAlgError">>) ELSE raised
  /\ pc' = "CP"
  /\ steps' = Append(steps, "S")
  /\ UNCHANGED <<config, C, P, T, V, Hcore, twoE, G, F, e, v, Eelec, Etotal>>

\* the closed-form coefficient matrix and the density matrix
\* 1.0/np.sqrt(2*x)
InvSqrtTwice(x) == Surd(NOne, NDiv(NOne, NMul(NInt(2), x)))
\* C[1,0] = C[0,0]; C[1,1] = -C[0,1]
CFromFirstRow(c00, c01) == <<<<c00, c01>>, <<c00, Surd(NNeg(c01.s), c01.r)>>>>
ClosedFormC(Sm) ==
  CFromFirstRow(InvSqrtTwice(NAdd(NOne, Sm[1][2])), InvSqrtTwice(NSub(NOne, Sm[1][2])))

CPCell ==
  /\ pc = "CP"
  /\ C' = ClosedFormC(S)
  /\ P' = constructDensityMat(C')
  /\ pc' = "T"
  /\ steps' = Append(steps, "CP")
  /\ UNCHANGED <<config, S, Sinv, T, V, Hcore, twoE, G, F, e, v, Eelec, Etotal, raised>>

TCell ==
  /\ pc = "T"
  /\ T' = [i \in 1..M |-> [j \in 1..M |-> basis_kinetic(alpha, d, R[i], alpha, d, R[j])]]
  /\ pc' = "V"
  /\ steps' = Append(steps, "T")
  /\ UNCHANGED <<config, S, Sinv, C, P, V, Hcore, twoE, G, F, e, v, Eelec, Etotal, raised>>

VCell ==
  /\ pc = "V"
  /\ V' = [i \in 1..M |-> [j \in 1..M |-> basis_potential(alpha, d, R[i], alpha, d, R[j], Z, R)]]
  /\ pc' = "Hcore"
  /\ steps' = Append(steps, "V")
  /\ UNCHANGED <<config, S, Sinv, C, P, T, Hcore, twoE, G, F, e, v, Eelec, Etotal, raised>>

HcoreCell ==
  /\ pc = "Hcore"
  /\ Hcore' = MatAdd(T, V)
  /\ pc' = "twoE"
  /\ steps' = Append(steps, "Hcore")
  /\ UNCHANGED <<config, S, Sinv, C, P, T, V, twoE, G, F, e, v, Eelec, Etotal, raised>>

TwoETensor(Mb, al, dd, Rs) ==
  [i \in 1..Mb |-> [j \in 1..Mb |-> [k \in 1..Mb |-> [l \in 1..Mb |->
     basis_2e(al, dd, Rs[i], al, dd, Rs[j], al, dd, Rs[k], al, dd, Rs[l])]]]]

twoECell ==
  /\ pc = "twoE"
  /\ twoE' = TwoETensor(M, alpha, d, R)
  /\ pc' = "G"
  /\ steps' = Append(steps, "twoE")
  /\ UNCHANGED <<config, S, Sinv, C, P, T, V, Hcore, G, F, e, v, Eelec, Etotal, raised>>

GCell ==
  /\ pc = "G"
  /\ G' = GMatrix(M, P, twoE)
  /\ pc' = "F"
  /\ steps' = Append(steps, "G")
  /\ UNCHANGED <<config, S, Sinv, C, P, T, V, Hcore, twoE, F, e, v, Eelec, Etotal, raised>>

\* a faulty FCell: F = Hcore; F += G, which adds G into the array Hcore names
FCell_InPlace ==
  /\ pc = "F"
  /\ F' = MatAdd(Hcore, G)
  /\ Hcore' = F'
  /\ IF Sinv = Undef
     THEN /\ raised' = Append(raised, <<"F", "NameError">>)
          /\ UNCHANGED <<e, v>>
     ELSE /\ \E o \in EigOrders(M) : e' = o /\ v' = o
          /\ UNCHANGED raised
  /\ pc' = "Etotal"
  /\ steps' = Append(steps, "F")
  /\ UNCHANGED <<config, S, Sinv, C, P, T, V, twoE, G, Eelec, Etotal>>

\* a faulty FCell: after the eigen-solve the run goes back to rebuild P
FCell_Iterate ==
  /\ pc = "F"
  /\ F' = MatAdd(Hcore, G)
  /\ IF Sinv = Undef
     THEN /\ raised' = Append(raised, <<"F", "NameError">>)
          /\ UNCHANGED <<e, v>>
     ELSE /\ \E o \in EigOrders(M) : e' = o /\ v' = o
          /\ UNCHANGED raised
  /\ pc' = "CP"
  /\ steps' = Append(steps, "F")
  /\ UNCHANGED <<config, S, Sinv, C, P, T, V, Hcore, twoE, G, Eelec, Etotal>>

\* F = Hcore + G, then e, v = np.linalg.eig(np.dot(Sinv, F)); with Sinv
\* unbound the second statement raises NameError and e, v stay unbound
FCell ==
  /\ pc = "F"
  /\ F' = MatAdd(Hcore, G)
  /\ IF Sinv = Undef
     THEN /\ raised' = Append(raised, <<"F", "NameError">>)
          /\ UNCHANGED <<e, v>>
     ELSE /\ \E o \in EigOrders(M) : e' = o /\ v' = o
          /\ UNCHANGED raised
  /\ pc' = "Etotal"
  /\ steps' = Append(steps, "F")
  /\ UNCHANGED <<config, S, Sinv, C, P, T, V, Hcore, twoE, G, Eelec, Etotal>>

EtotalCell ==
  /\ pc = "Etotal"
  /\ Eelec' = ElectronicEnergy(M, P, Hcore, F)
  /\ Etotal' = NAdd(Eelec', NuclearTerm(R))
  /\ pc' = "done"
  /\ steps' = Append(steps, "Etotal")
  /\ UNCHANGED <<config, S, Sinv, C, P, T, V, Hcore, twoE, G, F, e, v, raised>>

Next ==
  \/ SCell
  \/ CPCell
  \/ TCell
  \/ VCell
  \/ HcoreCell
  \/ twoECell
  \/ GCell
  \/ FCell
  \/ EtotalCell

Spec == Init /\ [][Next]_vars

(* ------------------ the functions called on their own ------------------ *)
\* The second specification calls constructDensityMat, the G loop and the
\* basis_* functions directly, on inputs the notebook's own cells never pass:
\* any basis size, any coefficient, density and integral arrays, and
\* exponent and coefficient lists of any two lengths.
MaxM == 3
MaxSeed == 2

\* array entries -2..2 without index symmetry
Gen(seed, k) == NInt(((seed * (k * k + 1) + 2 * k) % 5) - 2)
GenC(n, seed) == [i \in 1..n |-> [j \in 1..n |-> Surd(Gen(seed, 7 * i + j), NOne)]]
GenP(n, seed) == [i \in 1..n |-> [j \in 1..n |-> Gen(seed + 1, 5 * i + 3 * j)]]
GenG(n, seed) == [i \in 1..n |-> [j \in 1..n |-> Gen(seed + 2, 3 * i + 4 * j)]]
GenTwoE(n, seed) ==
  [i \in 1..n |-> [j \in 1..n |-> [k \in 1..n |-> [l \in 1..n |->
     Gen(seed, 27 * i + 9 * j + 3 * k + l)]]]]

\* the same with the index symmetries a density matrix and an integral
\* tensor have: P[i,j] = P[j,i], and twoE[i,j,k,l] unchanged by i <-> j,
\* by k <-> l and by (i,j) <-> (k,l)
Lo(a, b) == IF a <= b THEN a ELSE b
Hi(a, b) == IF a <= b THEN b ELSE a
PairCode(a, b) == (MaxM + 2) * Lo(a, b) + Hi(a, b)
GenSymP(n, seed) ==
  [i \in 1..n |-> [j \in 1..n |-> Gen(seed + 1, 5 * Lo(i, j) + 3 * Hi(i, j))]]
GenSymTwoE(n, seed) ==
  [i \in 1..n |-> [j \in 1..n |-> [k \in 1..n |-> [l \in 1..n |->
     Gen(seed, 37 * Lo(PairCode(i, j), PairCode(k, l)) + Hi(PairCode(i, j), PairCode(k, l)))]]]]

\* exponent / coefficient lists as a caller may pass them
BasisInputs ==
  { [alpha |-> <<RInt(1)>>, d |-> <<RInt(1)>>],
    [alpha |-> <<RInt(1), RInt(2)>>, d |-> <<RInt(1), RInt(2)>>],
    [alpha |-> <<RInt(1)>>, d |-> <<RInt(1), RInt(2)>>],
    [alpha |-> <<RInt(1), RInt(2)>>, d |-> <<RInt(1)>>],
    [alpha |-> <<>>, d |-> <<>>],
    [alpha |-> <<>>, d |-> <<RInt(1)>>] }

InitFn ==
  /\ pc = "call"
  /\ M \in 1..MaxM
  /\ N_electrons \in {2 * k : k \in 0..M}
  /\ \E seed \in 1..MaxSeed, symmetric \in BOOLEAN :
       /\ C = GenC(M, seed)
       /\ P = IF symmetric THEN GenSymP(M, seed) ELSE GenP(M, seed)
       /\ G = GenG(M, seed)
       /\ twoE = IF symmetric THEN GenSymTwoE(M, seed) ELSE GenTwoE(M, seed)
  /\ \E b \in BasisInputs : alpha = b.alpha /\ d = b.d
  /\ Z = <<RInt(1), RInt(1)>>
  /\ R = <<<<RInt(0), RInt(0), RInt(0)>>, <<RInt(1), RInt(0), RInt(0)>>>>
  /\ S = Undef /\ Sinv = Undef /\ T = Undef /\ V = Undef /\ Hcore = Undef
  /\ F = Undef /\ e = Undef /\ v = Undef /\ Eelec = Undef /\ Etotal = Undef
  /\ raised = <<>> /\ steps = <<>> /\ ret = Undef

CallDensity ==
  /\ pc = "call"
  /\ P' = constructDensityMat(C)
  /\ pc' = "density"
  /\ UNCHANGED <<config, S, Sinv, C, T, V, Hcore, twoE, G, F, e, v, Eelec, Etotal,
                 raised, steps>>

CallG ==
  /\ pc = "call"
  /\ G' = GMatrix(M, P, twoE)
  /\ pc' = "G"
  /\ UNCHANGED <<config, S, Sinv, C, P, T, V, Hcore, twoE, F, e, v, Eelec, Etotal,
                 raised, steps>>

\* dA[i] or dB[j] past the end of the array raises IndexError in the first
\* pass of the loops that reaches it
IndexRaises(al, dA, be, dB) ==
  \/ Len(al) > Len(dA) /\ Len(be) > 0
  \/ Len(be) > Len(dB) /\ Len(al) > 0

BasisResult(fn, al, dd, Zs, Rs) ==
  IF IndexRaises(al, dd, al, dd)
  THEN [fn |-> fn, kind |-> "IndexError", val |-> NZero]
  ELSE [fn |-> fn, kind |-> "value",
        val |-> CASE fn = "basis_overlap" -> basis_overlap(al, dd, Rs[1], al, dd, Rs[2])
                  [] fn = "basis_kinetic" -> basis_kinetic(al, dd, Rs[1], al, dd, Rs[2])
                  [] fn = "basis_potential" ->
                       basis_potential(al, dd, Rs[1], al, dd, Rs[2], Zs, Rs)
                  [] fn = "basis_2e" ->
                       basis_2e(al, dd, Rs[1], al, dd, Rs[2], al, dd, Rs[1], al, dd, Rs[2])]

CallBasis ==
  /\ pc = "call"
  /\ \E fn \in {"basis_overlap", "basis_kinetic", "basis_potential", "basis_2e"} :
       ret' = BasisResult(fn, alpha, d, Z, R)
  /\ pc' = "basis"
  /\ UNCHANGED <<M, N_electrons, Z, R, alpha, d, S, Sinv, C, P, T, V, Hcore, twoE, G,
                 F, e, v, Eelec, Etotal, raised, steps>>

NextFn ==
  \/ CallDensity
  \/ CallG
  \/ CallBasis

SpecFn == InitFn /\ [][NextFn]_vars

(* ----------------------------- properties ------------------------------ *)
Ran(c) == \E n \in DOMAIN steps : steps[n] = c
Idx == 1..M
AllFinite2(A) == \A i, j \in Idx : IsFinite(A[i][j])
Symmetric2(A) == \A i, j \in Idx : IsFinite(A[i][j]) /\ A[i][j] = A[j][i]

\* C1: once the two-electron cell has run, the tensor has the 8-fold
\* symmetry twoE[i,j,k,l] = twoE[j,i,k,l] = twoE[i,j,l,k] = twoE[k,l,i,j],
\* for every geometry and every contraction drawn.
C1_TwoESymmetry ==
  Ran("twoE") =>
    \A i, j, k, l \in Idx :
      /\ twoE[i][j][k][l] = twoE[j][i][k][l]
      /\ twoE[i][j][k][l] = twoE[i][j][l][k]
      /\ twoE[i][j][k][l] = twoE[k][l][i][j]

\* the tensor of two distinct centres and a two-primitive contraction
C1_Witness ==
  /\ Ran("twoE")
  /\ R[1] # R[2]
  /\ Len(alpha) = 2
  /\ twoE[1][2][1][2] # twoE[1][1][1][2]

\* the Coulomb and exchange sums of the G cell, each on its own
Coulomb(i, j) == NSum([k \in Idx |-> NSum([l \in Idx |-> NMul(P[k][l], twoE[i][j][l][k])])])
Exchange(i, j) == NSum([k \in Idx |-> NSum([l \in Idx |-> NMul(P[k][l], twoE[i][k][l][j])])])

OccupiedSum(mu, nu, n) ==
  NMul(NInt(2), NSum([a \in 1..n |-> SurdMul(C[mu][a], C[nu][a])]))

\* C3: constructDensityMat(C) gives P[mu,nu] = 2 * sum over the lowest
\* N_electrons/2 columns of C, symmetric, for every M and N_electrons.
C3_OccupiedColumns ==
  pc = "density" =>
    \A mu, nu \in Idx :
      /\ NEq(P[mu][nu], OccupiedSum(mu, nu, N_electrons \div 2))
      /\ P[mu][nu] = P[nu][mu]

\* |R_A - R_B| of the two nuclei
NuclearDistance == LET diff == VSub(R[1], R[2]) IN PowQ(Dot(diff, diff), 2)

\* C4: the reported total energy is 0.5 * sum P(Hcore + F) plus
\* Z_A*Z_B/|R_A - R_B|, for all charges and all positions of two distinct nuclei.
C4_TotalEnergy ==
  (pc = "done" /\ R[1] # R[2]) =>
    /\ Eelec = ElectronicEnergy(M, P, Hcore, F)
    /\ NEq(NSub(Etotal, Eelec), NDiv(NRat(RMul(Z[1], Z[2])), NuclearDistance))

CellOrder == <<"S", "CP", "T", "V", "Hcore", "twoE", "G", "F", "Etotal">>

\* C5 as the specification states it: an energy is reported only from Converged, that is after
\* the density matrix was rebuilt from the eigenvectors and compared.
C5_ReportedOnlyWhenConverged ==
  pc = "done" =>
    \E n, m \in DOMAIN steps : n < m /\ steps[n] = "F" /\ steps[m] = "CP"

\* C5 as amended: the run is one pass through the cells in order, G, F and the
\* eigen-solve and the energy each once, P built once before them; it
\* always goes on to the end and reports the energy there.
C5_SinglePass ==
  /\ Len(steps) <= Len(CellOrder)
  /\ steps = SubSeq(CellOrder, 1, Len(steps))
  /\ (pc = "done") = (Len(steps) = Len(CellOrder))
  /\ pc = "done" => Eelec # Undef /\ Etotal # Undef
  /\ pc # "done" => pc = CellOrder[Len(steps) + 1]

\* the run has ended with its single pass and an energy
C5_Witness == pc = "done" /\ steps = CellOrder /\ Etotal # Undef

\* C6: the eigen-solve gives e ascending, with the columns of v in the same
\* order, whatever order the solver produced.
C6_AscendingEig ==
  e # Undef => \A a \in Idx : e[a] = a /\ v[a] = e[a]

\* the limit value 2*pi/(alpha+beta)
PotLimit(a, b) == NMul(NRat(RDiv(RInt(2), RAdd(a, b))), PiPow(2))

\* C7: no evaluation of gaussian_potential or gaussian_2e divides by t = 0:
\* every entry of V and of twoE is finite, the limit branch returns
\* 2*pi/(alpha+beta), and the erf branch is entered only with |RP-RC|^2 > 0.
C7_NoDivisionByZero ==
  /\ Ran("V") => AllFinite2(V)
  /\ pc = "Hcore" =>
       \A i, j \in Idx, atom \in DOMAIN Z, k, l \in DOMAIN alpha :
         /\ PotIsLimit(alpha[k], R[i], alpha[l], R[j], R[atom]) =>
              gaussian_potential(alpha[k], R[i], alpha[l], R[j], R[atom])
                = PotLimit(alpha[k], alpha[l])
         /\ ~PotIsLimit(alpha[k], R[i], alpha[l], R[j], R[atom]) =>
              PotRPRC2(alpha[k], R[i], alpha[l], R[j], R[atom])[1] > 0
         /\ IsFinite(gaussian_potential(alpha[k], R[i], alpha[l], R[j], R[atom]))
  /\ Ran("twoE") => \A i, j, k, l \in Idx : IsFinite(twoE[i][j][k][l])

\* V and twoE were computed for two nuclei at the same position
C7_Witness == Ran("twoE") /\ R[1] = R[2] /\ AllFinite2(V)

\* trace(P*S)
TracePS == NSum([i \in Idx |-> NSum([j \in Idx |-> NMul(P[i][j], S[j][i])])])

\* C8 as the specification states it: trace(P*S) is the electron count for every S assembled.
C8_TraceIsElectronCount ==
  Ran("CP") => NEq(TracePS, NInt(N_electrons))

\* C8 as amended: trace(P*S) is the electron count when the basis functions
\* are normalised, S[0,0] = S[1,1] = 1.
C8_TraceNormalised ==
  (Ran("CP") /\ S[1][1] = NOne /\ S[2][2] = NOne) => NEq(TracePS, NInt(N_electrons))

\* P was built over a normalised basis on two distinct centres
C8_Witness == Ran("CP") /\ S[1][1] = NOne /\ S[2][2] = NOne /\ R[1] # R[2]

ValidBasis(al, dd) == Len(al) = Len(dd) /\ Len(al) > 0

\* C9: a call of a basis_* function with exponent and coefficient lists of
\* different lengths, or of length zero, ends in InvalidBasisDefinition.
C9_InvalidBasisRejected ==
  (pc = "basis" /\ ~ValidBasis(alpha, d)) => ret.kind = "InvalidBasisDefinition"

\* C10: S, T, V and Hcore are symmetric (and finite) once assembled.
C10_OneElectronSymmetry ==
  /\ Ran("S") => Symmetric2(S)
  /\ Ran("T") => Symmetric2(T)
  /\ Ran("V") => Symmetric2(V)
  /\ Ran("Hcore") => Symmetric2(Hcore)

\* Hcore was assembled for two distinct centres with different charges and a
\* two-primitive contraction
C10_Witness ==
  /\ Ran("Hcore")
  /\ R[1] # R[2]
  /\ Z[1] # Z[2]
  /\ Len(alpha) = 2
  /\ Hcore[1][1] # Hcore[2][2]

\* a step of the G cell, the F / eigen-solve cell or the Etotal cell keeps
\* every assembled input
KeepsAssembled ==
  pc \in {"G", "F", "Etotal"} =>
    /\ S' = S /\ Hcore' = Hcore /\ twoE' = twoE /\ P' = P
    /\ Sinv' = Sinv /\ C' = C /\ T' = T /\ V' = V
    /\ UNCHANGED config

\* C11: once S, Hcore and twoE are assembled, the G cell, the F / eigen-solve
\* cell and the Etotal cell leave S, Hcore, twoE and P as they were (and with
\* them every other input: Sinv, C, T, V and the configuration); they write
\* only G, F, e, v and the energy.
C11_AssembledUnchanged == [][KeepsAssembled]_vars

\* the three cells have run on an assembled S, Hcore, twoE and P, and have
\* written G, F and the energy
C11_Witness ==
  /\ pc = "done"
  /\ Ran("G") /\ Ran("F") /\ Ran("Etotal")
  /\ S # Undef /\ Hcore # Undef /\ twoE # Undef /\ P # Undef
  /\ G # Undef /\ F # Undef /\ Etotal # Undef
  /\ F # Hcore

\* P is symmetric and twoE has the 8-fold symmetry
SymmetricInputs ==
  /\ \A i, j \in Idx : P[i][j] = P[j][i]
  /\ \A i, j, k, l \in Idx :
       /\ twoE[i][j][k][l] = twoE[j][i][k][l]
       /\ twoE[i][j][k][l] = twoE[i][j][l][k]
       /\ twoE[i][j][k][l] = twoE[k][l][i][j]

\* C12: when P is symmetric and twoE has the 8-fold symmetry, the G the loop
\* produces is symmetric, G[i,j] = G[j,i], and so is F = Hcore + G for every
\* symmetric Hcore.
C12_GSymmetric ==
  (pc = "G" /\ SymmetricInputs) =>
    /\ \A i, j \in Idx : NEq(G[i][j], G[j][i])
    /\ \A seed \in 1..MaxSeed :
         Symmetric2(MatAdd(GenSymP(M, seed), G))

\* the G loop has run on a symmetric P and an 8-fold symmetric twoE that are
\* not symmetric any further, and the exchange sums differ from entry to entry
C12_Witness ==
  /\ pc = "G"
  /\ M >= 3
  /\ SymmetricInputs
  /\ P[1][2] # P[1][3]
  /\ twoE[1][2][1][3] # twoE[1][1][2][3]
  /\ Exchange(1, 2) # Exchange(1, 3)
  /\ G[1][2] # G[1][3]
  /\ G[1][2] # NZero
====
